---- MODULE Spec2Model ----
(***************************************************************************)
(* A model of orla-tool-fs: the path resolver (ExpandPath), the nine       *)
(* operations of internal/fs (Read, Write, List, Exists, Stat, Mkdir, Rm,  *)
(* Mv, Cp) over a host file system, and the dispatcher of cmd/fs.          *)
(*                                                                         *)
(* A string that is used as a path is the sequence of its segments, the    *)
(* pieces between separators: "" is <<"">>, "/" is <<"", "">>, "/a/b" is   *)
(* <<"", "a", "b">>, "~/b" is <<"~", "b">>, "a//b" is <<"a", "", "b">>.    *)
(* A reference to an environment variable is a whole segment ("$HOME").    *)
(***************************************************************************)
EXTENDS Naturals, Sequences, FiniteSets, TLC

VARIABLES fs, pc, inv, res, stdout, exit, expand, mkdirInfo

vars == <<fs, pc, inv, res, stdout, exit, expand, mkdirInfo>>

(***************************************************************************)
(* Strings as segment sequences                                            *)
(***************************************************************************)

\* The file names of the modelled tree.
Names == {"a", "b"}

\* The empty string.
EmptyStr == <<"">>

\* The segments a raw path of the resolver's own specification is made of.
Segments == {"", ".", "..", "~", "a", "b", "$HOME", "$X"}

\* The longest raw path, in segments, the resolver is applied to.
MaxSegs == 3

\* strings.HasPrefix(p, "/"): the string is not empty and starts with a separator.
IsAbs(p) == Len(p) >= 2 /\ p[1] = ""

RECURSIVE Flatten(_)
\* The concatenation of a sequence of sequences.
Flatten(ss) == IF ss = <<>> THEN <<>> ELSE Head(ss) \o Flatten(Tail(ss))

\* os.Getenv for the two variables of the model; an unset variable reads "".
Getenv(env, seg) == IF seg = "$HOME" THEN env.HOME ELSE env.X

\* os.ExpandEnv: each reference is replaced by the variable's value, once, not
\* recursively. The value's own segments take the place of the reference's.
ExpandEnv(p, env) ==
    Flatten([i \in 1..Len(p) |->
        IF p[i] \in {"$HOME", "$X"} THEN Getenv(env, p[i]) ELSE <<p[i]>>])

\* One segment of filepath.Clean's scan: empty and "." segments are dropped,
\* ".." removes the last kept element if there is one that is not "..", is
\* kept on a relative path, and is dropped at the root of a rooted one.
CleanStep(out, seg, rooted) ==
    IF seg \in {"", "."} THEN out
    ELSE IF seg = ".."
         THEN IF out # <<>> /\ out[Len(out)] # ".." THEN SubSeq(out, 1, Len(out) - 1)
              ELSE IF rooted THEN out ELSE Append(out, "..")
         ELSE Append(out, seg)

RECURSIVE CleanScan(_, _, _)
CleanScan(out, rest, rooted) ==
    IF rest = <<>> THEN out
    ELSE CleanScan(CleanStep(out, Head(rest), rooted), Tail(rest), rooted)

\* filepath.Clean on a Unix host.
Clean(p) ==
    IF p = EmptyStr THEN <<".">>
    ELSE LET rooted == IsAbs(p)
             out == CleanScan(<<>>, p, rooted)
         IN  IF rooted THEN (IF out = <<>> THEN <<"", "">> ELSE <<"">> \o out)
             ELSE IF out = <<>> THEN <<".">> ELSE out

\* os.UserHomeDir on a Unix host: $HOME, an error when it is empty.
UserHomeDir(env) ==
    IF env.HOME = EmptyStr THEN [err |-> <<"$HOME is not defined">>, home |-> EmptyStr]
    ELSE [err |-> <<>>, home |-> env.HOME]

\* A mutant of the deferred clean: the result is returned as it was built.
CleanOnReturnSkipped(rtn) == rtn

\* The deferred filepath.Clean of ExpandPath: applied when no error is returned.
CleanOnReturn(rtn) == Clean(rtn)

\* ExpandPath: rtn is the resolved string, err the error message (<<>> for nil).
ExpandPath(p0, env) ==
    LET p == ExpandEnv(p0, env)
    IN  IF (Len(p) >= 2 /\ p[1] = "~") \/ p = <<"~">>
        THEN LET h == UserHomeDir(env)
             IN  IF h.err # <<>>
                 THEN [rtn |-> EmptyStr,
                       err |-> <<"failed to get home directory: ">> \o h.err]
                 ELSE IF p = <<"~">>
                      THEN [rtn |-> CleanOnReturn(h.home), err |-> <<>>]
                      ELSE [rtn |-> CleanOnReturn(h.home \o Tail(p)), err |-> <<>>]
        ELSE [rtn |-> CleanOnReturn(p), err |-> <<>>]

(***************************************************************************)
(* The host file system                                                    *)
(*                                                                         *)
(* A tree of bounded depth below a root directory, which is also the       *)
(* working directory of every invocation. A node is named by the sequence  *)
(* of file names from the root; the root is <<>>.                          *)
(***************************************************************************)

\* The root of the tree.
Root == <<>>

\* The nodes below the root: one or two names deep.
NodePaths == {<<x>> : x \in Names} \cup {<<x, y>> : x \in Names, y \in Names}

\* The names in the order os.ReadDir and filepath.WalkDir return them (sorted).
NameOrder == <<"a", "b">>

\* File contents are byte sequences; "xFF" stands for the byte 0xff, which is
\* not valid UTF-8.
Hi == <<"h", "i">>
BadBytes == <<"xFF">>
NoData == <<>>

Absent == [kind |-> "none", data |-> NoData]
Dir == [kind |-> "dir", data |-> NoData]
File(data) == [kind |-> "file", data |-> data]

\* The file system an episode starts from: an empty root directory.
EmptyFS == [n \in NodePaths |-> Absent]

Kind(f, n) == IF n = Root THEN "dir" ELSE IF n \in NodePaths THEN f[n].kind ELSE "none"

Data(f, n) == IF n \in NodePaths THEN f[n].data ELSE NoData

Prefix(n, i) == SubSeq(n, 1, i)

Parent(n) == Prefix(n, Len(n) - 1)

IsPrefix(a, b) == Len(a) <= Len(b) /\ Prefix(b, Len(a)) = a

\* Every node that exists lies in a directory that exists.
TreeOK(f) == \A n \in NodePaths : f[n].kind # "none" => Kind(f, Parent(n)) = "dir"

\* The node a cleaned path names for the host: an absolute path from the root,
\* a relative one from the working directory (the root, whose ".." is itself).
RECURSIVE DropDotDot(_)
DropDotDot(p) == IF p # <<>> /\ Head(p) = ".." THEN DropDotDot(Tail(p)) ELSE p

NodeOf(p) ==
    IF IsAbs(p) THEN (IF p = <<"", "">> THEN Root ELSE Tail(p))
    ELSE IF p = <<".">> THEN Root ELSE DropDotDot(p)

\* The path lookup of the host: the error of walking to node n's directory.
\* The first ancestor that is not a directory decides: missing is ENOENT, a
\* file is ENOTDIR.
RECURSIVE WalkErr(_, _, _)
WalkErr(f, n, i) ==
    IF i >= Len(n) THEN ""
    ELSE IF Kind(f, Prefix(n, i)) = "dir" THEN WalkErr(f, n, i + 1)
    ELSE IF Kind(f, Prefix(n, i)) = "file" THEN "ENOTDIR" ELSE "ENOENT"

LookupErr(f, n) ==
    IF WalkErr(f, n, 1) # "" THEN WalkErr(f, n, 1)
    ELSE IF Kind(f, n) = "none" THEN "ENOENT" ELSE ""

\* Host errors. A fault is an error the host raises at one step of an
\* operation whatever the tree holds (a permission it denies, a failing device).
NoFault == [step |-> "none", errno |-> ""]
Faults ==
    {NoFault, [step |-> "stat", errno |-> "EACCES"], [step |-> "mkdirall", errno |-> "EACCES"],
     [step |-> "op", errno |-> "EACCES"], [step |-> "op", errno |-> "EIO"]}

FaultAt(fault, step) == IF fault.step = step THEN fault.errno ELSE ""

\* os.IsNotExist and os.IsPermission on a host error.
IsNotExist(errno) == errno = "ENOENT"
IsPermission(errno) == errno \in {"EACCES", "EPERM"}

\* strerror.
ErrText(errno) ==
    CASE errno = "ENOENT" -> "no such file or directory"
      [] errno = "ENOTDIR" -> "not a directory"
      [] errno = "EISDIR" -> "is a directory"
      [] errno = "ELOOP" -> "too many levels of symbolic links"
      [] errno = "ENOTEMPTY" -> "directory not empty"
      [] errno = "EEXIST" -> "file exists"
      [] errno = "EACCES" -> "permission denied"
      [] errno = "EINVAL" -> "invalid argument"
      [] errno = "EBUSY" -> "device or resource busy"
      [] OTHER -> "input/output error"

\* A path as the characters of a message: its segments and the separators.
RECURSIVE Render(_)
Render(p) ==
    IF Len(p) <= 1 THEN p ELSE <<Head(p), "/">> \o Render(Tail(p))

\* (*os.PathError).Error(): op + " " + path + ": " + text.
PathError(op, p, errno) == <<op, " ">> \o Render(p) \o <<": ", ErrText(errno)>>

\* (*os.LinkError).Error(): op + " " + old + " " + new + ": " + text.
LinkError(op, old, new, errno) ==
    <<op, " ">> \o Render(old) \o <<" ">> \o Render(new) \o <<": ", ErrText(errno)>>

\* A symbolic link: its data is the node its target path names.
Link(target) == [kind |-> "link", data |-> target]

\* The number of links the host follows in one lookup before it gives ELOOP.
MaxSymlinks == 40

\* The path lookup of a link-following host call: the first link on the way
\* to n is replaced by its target, until no link is left on the way.
RECURSIVE FollowLinks(_, _, _)
FollowLinks(f, n, k) ==
    LET links == {i \in 1..Len(n) :
                     /\ Kind(f, Prefix(n, i)) = "link"
                     /\ \A j \in 1..(i - 1) : Kind(f, Prefix(n, j)) = "dir"}
    IN  IF links = {} THEN [err |-> "", node |-> n]
        ELSE IF k = 0 THEN [err |-> "ELOOP", node |-> n]
        ELSE LET i == CHOOSE i \in links : TRUE
             IN  FollowLinks(f, Data(f, Prefix(n, i)) \o SubSeq(n, i + 1, Len(n)), k - 1)

\* A mutant of osStat: the path is inspected itself, as os.Lstat does.
osLstat(f, p, fault) ==
    LET n == NodeOf(p)
        e == IF FaultAt(fault, "stat") # "" THEN FaultAt(fault, "stat") ELSE LookupErr(f, n)
    IN  [err |-> e,
         isDir |-> (e = "" /\ Kind(f, n) = "dir"),
         size |-> IF e # "" THEN 0 ELSE IF Kind(f, n) = "dir" THEN 4096 ELSE Len(Data(f, n)),
         perm |-> IF Kind(f, n) = "dir" THEN "755" ELSE "644",
         modeSymlink |-> (e = "" /\ Kind(f, n) = "link")]

\* os.Stat(p): err is the errno ("" for nil), the rest is the os.FileInfo. The
\* call follows symbolic links, so the info is that of the node the lookup
\* ends at; perm is the permission bits in octal, as the operations create
\* them.
osStat(f, p, fault) ==
    LET to == FollowLinks(f, NodeOf(p), MaxSymlinks)
        n == to.node
        e == IF FaultAt(fault, "stat") # "" THEN FaultAt(fault, "stat")
             ELSE IF to.err # "" THEN to.err
             ELSE LookupErr(f, n)
    IN  [err |-> e,
         isDir |-> (e = "" /\ Kind(f, n) = "dir"),
         size |-> IF e # "" THEN 0 ELSE IF Kind(f, n) = "dir" THEN 4096 ELSE Len(Data(f, n)),
         perm |-> IF Kind(f, n) = "dir" THEN "755" ELSE "644",
         modeSymlink |-> (e = "" /\ Kind(f, n) = "link")]

\* os.ReadFile(p).
osReadFile(f, p, fault) ==
    LET n == NodeOf(p)
        e == IF FaultAt(fault, "op") # "" THEN FaultAt(fault, "op")
             ELSE IF LookupErr(f, n) # "" THEN LookupErr(f, n)
             ELSE IF Kind(f, n) = "dir" THEN "EISDIR" ELSE ""
    IN  [err |-> e, data |-> IF e = "" THEN Data(f, n) ELSE NoData]

\* A mutant of utf8Valid: every byte sequence is taken as valid.
utf8ValidAlways(data) == TRUE

\* utf8.Valid(data).
utf8Valid(data) == \A i \in 1..Len(data) : data[i] # "xFF"

\* os.MkdirAll(n) without a fault: an ancestor (or n itself) that is a file
\* fails it before anything is created; otherwise every missing directory on
\* the way to n is created.
MkdirAllErr(f, n) ==
    IF \E i \in 1..Len(n) : Kind(f, Prefix(n, i)) = "file" THEN "ENOTDIR" ELSE ""

\* A mutant of MkdirAllFS: only the last directory is made, as os.Mkdir would.
MkdirAllFSLeafOnly(f, n) ==
    [m \in NodePaths |-> IF m = n /\ f[m].kind = "none" THEN Dir ELSE f[m]]

MkdirAllFS(f, n) ==
    [m \in NodePaths |-> IF IsPrefix(m, n) /\ f[m].kind = "none" THEN Dir ELSE f[m]]

osMkdirAll(f, n, fault, step) ==
    LET e == IF FaultAt(fault, step) # "" THEN FaultAt(fault, step) ELSE MkdirAllErr(f, n)
    IN  [err |-> e, fs |-> IF e = "" THEN MkdirAllFS(f, n) ELSE f]

\* A mutant of osWriteFile: the file is opened without O_TRUNC for appending,
\* so what it held stays in front of the new bytes.
osWriteFileAppends(f, p, data, fault) ==
    LET n == NodeOf(p)
        e == IF FaultAt(fault, "op") # "" THEN FaultAt(fault, "op")
             ELSE IF WalkErr(f, n, 1) # "" THEN WalkErr(f, n, 1)
             ELSE IF Kind(f, n) = "dir" THEN "EISDIR" ELSE ""
    IN  [err |-> e, fs |-> IF e = "" THEN [f EXCEPT ![n] = File(Data(f, n) \o data)] ELSE f]

\* os.WriteFile(p, data, 0644): open with O_WRONLY|O_CREATE|O_TRUNC and write.
osWriteFile(f, p, data, fault) ==
    LET n == NodeOf(p)
        e == IF FaultAt(fault, "op") # "" THEN FaultAt(fault, "op")
             ELSE IF WalkErr(f, n, 1) # "" THEN WalkErr(f, n, 1)
             ELSE IF Kind(f, n) = "dir" THEN "EISDIR" ELSE ""
    IN  [err |-> e, fs |-> IF e = "" THEN [f EXCEPT ![n] = File(data)] ELSE f]

\* The names in directory n, sorted.
Children(f, n) == SelectSeq(NameOrder, LAMBDA x : Kind(f, Append(n, x)) # "none")

\* os.ReadDir(p).
osReadDir(f, p, fault) ==
    LET e == FaultAt(fault, "op")
    IN  [err |-> e, entries |-> IF e = "" THEN Children(f, NodeOf(p)) ELSE <<>>]

\* os.Mkdir(p, 0755).
osMkdir(f, p, fault) ==
    LET n == NodeOf(p)
        e == IF FaultAt(fault, "op") # "" THEN FaultAt(fault, "op")
             ELSE IF WalkErr(f, n, 1) # "" THEN WalkErr(f, n, 1)
             ELSE IF Kind(f, n) # "none" THEN "EEXIST" ELSE ""
    IN  [err |-> e, fs |-> IF e = "" THEN [f EXCEPT ![n] = Dir] ELSE f]

\* The tree without node n and everything below it.
RemoveTree(f, n) == [m \in NodePaths |-> IF IsPrefix(n, m) THEN Absent ELSE f[m]]

\* A mutant of osRemove: a directory is removed with what it holds.
osRemoveForce(f, p, fault) ==
    LET n == NodeOf(p)
        e == IF FaultAt(fault, "op") # "" THEN FaultAt(fault, "op")
             ELSE IF n = Root THEN "EINVAL"
             ELSE LookupErr(f, n)
    IN  [err |-> e, fs |-> IF e = "" THEN RemoveTree(f, n) ELSE f]

\* os.Remove(p): unlink, then rmdir; the working directory itself is refused.
osRemove(f, p, fault) ==
    LET n == NodeOf(p)
        e == IF FaultAt(fault, "op") # "" THEN FaultAt(fault, "op")
             ELSE IF n = Root THEN "EINVAL"
             ELSE IF LookupErr(f, n) # "" THEN LookupErr(f, n)
             ELSE IF Kind(f, n) = "dir" /\ Children(f, n) # <<>> THEN "ENOTEMPTY" ELSE ""
    IN  [err |-> e, fs |-> IF e = "" THEN RemoveTree(f, n) ELSE f]

\* os.RemoveAll(p): a path ending in "." is refused, a missing one is no error.
osRemoveAll(f, p, fault) ==
    LET n == NodeOf(p)
        e == IF FaultAt(fault, "op") # "" THEN FaultAt(fault, "op")
             ELSE IF n = Root THEN "EINVAL" ELSE ""
    IN  [err |-> e, fs |-> IF e = "" THEN RemoveTree(f, n) ELSE f]

\* A mutant of DirOf: the path itself is given, not its directory.
DirOfItself(p) == p

\* filepath.Dir of a cleaned path.
DirOf(p) ==
    IF IsAbs(p) THEN (IF Len(p) = 2 THEN <<"", "">> ELSE SubSeq(p, 1, Len(p) - 1))
    ELSE IF Len(p) = 1 THEN <<".">> ELSE SubSeq(p, 1, Len(p) - 1)

\* A mutant of BaseOf: the first element of the path is given, not the last.
BaseOfFirst(p) == p[1]

\* filepath.Base of a cleaned path.
BaseOf(p) == IF p = <<"", "">> THEN "/" ELSE p[Len(p)]

\* filepath.Join(p, name): the two joined by a separator, cleaned.
Join(p, name) == Clean(p \o <<name>>)

\* The part of node m below node n.
Below(n, m) == SubSeq(m, Len(n) + 1, Len(m))

\* A mutant of MoveTree: the subtree appears at d and stays at s.
MoveTreeKeepsSource(f, s, d) ==
    [m \in NodePaths |->
        IF IsPrefix(d, m)
        THEN (IF s \o Below(d, m) \in NodePaths THEN f[s \o Below(d, m)] ELSE Absent)
        ELSE f[m]]

\* The tree with the subtree at s moved to d.
MoveTree(f, s, d) ==
    [m \in NodePaths |->
        IF IsPrefix(d, m)
        THEN (IF s \o Below(d, m) \in NodePaths THEN f[s \o Below(d, m)] ELSE Absent)
        ELSE IF IsPrefix(s, m) THEN Absent ELSE f[m]]

\* os.Rename(old, new): Go refuses a destination that is a directory before it
\* asks the host; rename(2) then replaces a file, and does nothing when the
\* two names are the same file.
RenameErr(f, s, d) ==
    IF Kind(f, d) = "dir" /\ LookupErr(f, d) = "" THEN "EEXIST"
    ELSE IF s = Root THEN "EBUSY"
    ELSE IF LookupErr(f, s) # "" THEN LookupErr(f, s)
    ELSE IF WalkErr(f, d, 1) # "" THEN WalkErr(f, d, 1)
    ELSE IF Kind(f, s) = "dir" /\ IsPrefix(s, d) THEN "EINVAL"
    ELSE IF Kind(f, s) = "dir" /\ Kind(f, d) = "file" THEN "ENOTDIR"
    ELSE ""

\* A mutant of osRename: the two names are handed to the host in the wrong
\* order.
osRenameSwapped(f, old, new, fault) ==
    LET s == NodeOf(new)
        d == NodeOf(old)
        e == IF FaultAt(fault, "op") # "" THEN FaultAt(fault, "op") ELSE RenameErr(f, s, d)
    IN  [err |-> e, fs |-> IF e = "" /\ s # d THEN MoveTree(f, s, d) ELSE f]

osRename(f, old, new, fault) ==
    LET s == NodeOf(old)
        d == NodeOf(new)
        e == IF FaultAt(fault, "op") # "" THEN FaultAt(fault, "op") ELSE RenameErr(f, s, d)
    IN  [err |-> e, fs |-> IF e = "" /\ s # d THEN MoveTree(f, s, d) ELSE f]

\* copy.Copy(src, dest) of github.com/otiai10/copy, with its default options.
\* A file: the destination's directory is made (MkdirAll), the destination is
\* created or truncated, and the source's bytes are copied into it. A
\* directory: the destination directory is made (MkdirAll), the source is
\* listed, and each entry is copied in turn; the first error ends the copy and
\* what was copied before it stays.
fcopy(f, sp, dp) ==
    LET s == NodeOf(sp)
        d == NodeOf(dp)
        mk == osMkdirAll(f, NodeOf(DirOf(dp)), NoFault, "op")
    IN  IF mk.err # "" THEN [err |-> mk.err, op |-> "mkdir", path |-> DirOf(dp), fs |-> f]
        ELSE IF Kind(mk.fs, d) = "dir"
             THEN [err |-> "EISDIR", op |-> "open", path |-> dp, fs |-> mk.fs]
             ELSE LET created == [mk.fs EXCEPT ![d] = File(NoData)]
                  IN  [err |-> "", op |-> "", path |-> dp,
                       fs |-> [created EXCEPT ![d] = File(Data(created, s))]]

RECURSIVE copyEntries(_, _, _, _)
RECURSIVE dcopy(_, _, _)

\* The switchboard of copy.Copy: a directory goes to dcopy, a file to fcopy.
copyNode(f, sp, dp) ==
    IF Kind(f, NodeOf(sp)) = "dir" THEN dcopy(f, sp, dp) ELSE fcopy(f, sp, dp)

copyEntries(f, sp, dp, entries) ==
    IF entries = <<>> THEN [err |-> "", op |-> "", path |-> dp, fs |-> f]
    ELSE LET one == copyNode(f, Join(sp, Head(entries)), Join(dp, Head(entries)))
         IN  IF one.err # "" THEN one
             ELSE copyEntries(one.fs, sp, dp, Tail(entries))

dcopy(f, sp, dp) ==
    LET mk == osMkdirAll(f, NodeOf(dp), NoFault, "op")
    IN  IF mk.err # "" THEN [err |-> mk.err, op |-> "mkdir", path |-> dp, fs |-> f]
        ELSE copyEntries(mk.fs, sp, dp, Children(mk.fs, NodeOf(sp)))

copyCopy(f, sp, dp, fault) ==
    IF FaultAt(fault, "op") # ""
    THEN [err |-> FaultAt(fault, "op"), op |-> "lstat", path |-> sp, fs |-> f]
    ELSE copyNode(f, sp, dp)

\* Whether the subtree at s, put at d, stays within the modelled depth: the
\* calls that would leave it (among them a directory copied into itself,
\* which the library follows until the host refuses the path) are not made.
Fits(f, s, d) ==
    /\ d \in NodePaths \cup {Root}
    /\ \A m \in NodePaths :
          (IsPrefix(s, m) /\ f[m].kind # "none") => d \o Below(s, m) \in NodePaths \cup {Root}
    /\ ~(Kind(f, s) = "dir" /\ IsPrefix(s, d) /\ s # d)

(***************************************************************************)
(* internal/fs: the result mapping and the nine operations                 *)
(*                                                                         *)
(* An operation is an operator from the file system, the environment, its  *)
(* arguments and the host's fault to the result mapping (res) and the file *)
(* system it leaves (fs).                                                  *)
(***************************************************************************)

\* A mutant of mcpError: the mapping is built from the success template and
\* success is left true.
mcpErrorLeavesSuccess(err) == [error |-> err, success |-> TRUE]

\* mcpError: the failure mapping.
mcpError(err) == [error |-> err, success |-> FALSE]

\* mcpSuccess: success and the name-value pairs, a later pair overwriting an
\* earlier one of the same name; an odd number of arguments is an error.
mcpSuccess(nameValuePairs) ==
    IF Len(nameValuePairs) % 2 # 0 THEN mcpError(<<"odd number of name-value pairs">>)
    ELSE LET n == Len(nameValuePairs) \div 2
             names == {nameValuePairs[2 * i - 1] : i \in 1..n}
             last(k) == CHOOSE i \in 1..n :
                           /\ nameValuePairs[2 * i - 1] = k
                           /\ \A j \in 1..n : nameValuePairs[2 * j - 1] = k => j <= i
         IN  [k \in names \cup {"success"} |->
                 IF k \in names THEN nameValuePairs[2 * last(k)] ELSE TRUE]

\* itemType.
itemType(isDir) == IF isDir THEN "directory" ELSE "file"

\* What an operation hands back: its result mapping and the file system after it.
Out(r, f) == [res |-> r, fs |-> f]

\* The translation of a host error at the operation step, shared by the
\* operations: permission denied names the raw path, anything else is native.
OpError(errno, native, path) ==
    IF IsPermission(errno) THEN mcpError(<<"permission denied: ">> \o Render(path))
    ELSE mcpError(native)

\* A mutant of Read: the file that was read is unlinked.
ReadConsumes(f, env, path, fault) ==
    IF path = EmptyStr THEN Out(mcpError(<<"path is required">>), f)
    ELSE LET x == ExpandPath(path, env)
             rd == osReadFile(f, x.rtn, fault)
         IN  IF x.err # <<>> THEN Out(mcpError(x.err), f)
             ELSE IF rd.err # "" THEN Out(mcpError(PathError("open", x.rtn, rd.err)), f)
             ELSE Out(mcpSuccess(<<"content", rd.data>>), RemoveTree(f, NodeOf(x.rtn)))

\* Read.
Read(f, env, path, fault) ==
    IF path = EmptyStr THEN Out(mcpError(<<"path is required">>), f)
    ELSE LET x == ExpandPath(path, env)
             p == x.rtn
             info == osStat(f, p, fault)
             rd == osReadFile(f, p, fault)
         IN  IF x.err # <<>> THEN Out(mcpError(x.err), f)
             ELSE IF info.err # ""
             THEN (IF IsNotExist(info.err)
                   THEN Out(mcpError(<<"file not found: ">> \o Render(path)), f)
                   ELSE Out(mcpError(PathError("stat", p, info.err)), f))
             ELSE IF info.isDir
             THEN Out(mcpError(<<"path is not a file: ">> \o Render(path)), f)
             ELSE IF rd.err # ""
             THEN Out(OpError(rd.err, PathError("open", p, rd.err), path), f)
             ELSE IF ~utf8Valid(rd.data)
             THEN Out(mcpError(<<"file is not valid UTF-8: ">> \o Render(path)), f)
             ELSE Out(mcpSuccess(<<"content", rd.data>>), f)

\* Write.
Write(f, env, path, content, createDirs, fault) ==
    IF path = EmptyStr THEN Out(mcpError(<<"path is required">>), f)
    ELSE IF content = NoData THEN Out(mcpError(<<"content is required">>), f)
    ELSE LET x == ExpandPath(path, env)
             p == x.rtn
             mk == IF createDirs THEN osMkdirAll(f, NodeOf(DirOf(p)), fault, "mkdirall")
                   ELSE [err |-> "", fs |-> f]
             wr == osWriteFile(mk.fs, p, content, fault)
         IN  IF x.err # <<>> THEN Out(mcpError(x.err), f)
             ELSE IF mk.err # ""
             THEN Out(mcpError(PathError("mkdir", DirOf(p), mk.err)), f)
             ELSE IF wr.err # ""
             THEN Out(OpError(wr.err, PathError("open", p, wr.err), path), wr.fs)
             ELSE Out(mcpSuccess(<<"path", p>>), wr.fs)

\* filepath.Rel(base, targ) of two cleaned paths: the elements of targ after
\* the common prefix, behind one ".." for each element of base left over. It
\* fails when only one of the two is absolute or base goes up by "..".
RelElems(p) == IF IsAbs(p) THEN (IF p = <<"", "">> THEN <<>> ELSE Tail(p)) ELSE p

Common(b, t) ==
    CHOOSE k \in 0..Len(b) :
        /\ k <= Len(t)
        /\ Prefix(b, k) = Prefix(t, k)
        /\ (k < Len(b) /\ k < Len(t)) => b[k + 1] # t[k + 1]

Rel(base, targ) ==
    LET b == IF base = <<".">> THEN <<>> ELSE RelElems(base)
        t == RelElems(targ)
        k == Common(b, t)
        up == [i \in 1..(Len(b) - k) |-> ".."]
    IN  IF targ = base THEN [err |-> FALSE, rel |-> <<".">>]
        ELSE IF IsAbs(base) # IsAbs(targ) \/ (\E i \in (k + 1)..Len(b) : b[i] = "..")
        THEN [err |-> TRUE, rel |-> EmptyStr]
        ELSE [err |-> FALSE, rel |-> up \o SubSeq(t, k + 1, Len(t))]

\* filepath.WalkDir below a directory: each entry in sorted order, a
\* directory's own entries right after it.
RECURSIVE walkEntries(_, _, _)
walkEntries(f, wp, names) ==
    IF names = <<>> THEN <<>>
    ELSE LET walkPath == Join(wp, Head(names))
             isDir == Kind(f, NodeOf(walkPath)) = "dir"
         IN  <<[path |-> walkPath, name |-> Head(names), isDir |-> isDir]>>
             \o (IF isDir THEN walkEntries(f, walkPath, Children(f, NodeOf(walkPath)))
                 ELSE <<>>)
             \o walkEntries(f, wp, Tail(names))

\* filepath.WalkDir(p): the root first, then what lies below it.
osWalkDir(f, p, fault) ==
    LET e == FaultAt(fault, "op")
    IN  [err |-> e,
         visited |-> IF e # "" THEN <<>>
                     ELSE <<[path |-> p, name |-> BaseOf(p), isDir |-> TRUE]>>
                          \o walkEntries(f, p, Children(f, NodeOf(p)))]

\* A mutant of walkItem: relative is always the entry's name, the fallback for a
\* failed filepath.Rel.
walkItemNameOnly(p, d) ==
    [path |-> d.path, name |-> d.name, type |-> itemType(d.isDir), relative |-> <<d.name>>]

\* The item List appends for one visited entry of the walk.
walkItem(p, d) ==
    LET r == Rel(p, d.path)
    IN  [path |-> d.path, name |-> d.name, type |-> itemType(d.isDir),
         relative |-> IF r.err THEN <<d.name>> ELSE r.rel]

\* A mutant of dirItem: the item is built as the recursive walk builds it, with
\* a relative field.
dirItemAsWalked(f, p, name) ==
    [path |-> Join(p, name), name |-> name,
     type |-> itemType(Kind(f, NodeOf(Join(p, name))) = "dir"),
     relative |-> <<name>>]

\* A mutant of dirItem: the entry's name is given as its path, not joined to
\* the listed directory.
dirItemNameAsPath(f, p, name) ==
    [path |-> <<name>>, name |-> name,
     type |-> itemType(Kind(f, NodeOf(Join(p, name))) = "dir")]

\* The item List appends for one entry of os.ReadDir.
dirItem(f, p, name) ==
    [path |-> Join(p, name), name |-> name,
     type |-> itemType(Kind(f, NodeOf(Join(p, name))) = "dir")]

\* List.
List(f, env, path, recursive, fault) ==
    IF path = EmptyStr THEN Out(mcpError(<<"path is required">>), f)
    ELSE LET x == ExpandPath(path, env)
             p == x.rtn
             info == osStat(f, p, fault)
             wd == osWalkDir(f, p, fault)
             walked == SelectSeq(wd.visited, LAMBDA d : d.path # p)
             witems == [i \in 1..Len(walked) |-> walkItem(p, walked[i])]
             rd == osReadDir(f, p, fault)
             items == [i \in 1..Len(rd.entries) |-> dirItem(f, p, rd.entries[i])]
         IN  IF x.err # <<>> THEN Out(mcpError(x.err), f)
             ELSE IF info.err # ""
             THEN (IF IsNotExist(info.err)
                   THEN Out(mcpError(<<"directory not found: ">> \o Render(path)), f)
                   ELSE Out(mcpError(PathError("stat", p, info.err)), f))
             ELSE IF ~info.isDir
             THEN Out(mcpError(<<"path is not a directory: ">> \o Render(path)), f)
             ELSE IF recursive
             THEN (IF wd.err # ""
                   THEN Out(OpError(wd.err, PathError("lstat", p, wd.err), path), f)
                   ELSE Out(mcpSuccess(<<"items", witems, "count", Len(witems)>>), f))
             ELSE IF rd.err # ""
             THEN Out(OpError(rd.err, PathError("open", p, rd.err), path), f)
             ELSE Out(mcpSuccess(<<"items", items, "count", Len(items)>>), f)

\* A mutant of Exists: whatever the stat call reports, the target is taken to
\* be missing.
ExistsSwallowsErrors(f, env, path, fault) ==
    IF path = EmptyStr THEN Out(mcpError(<<"path is required">>), f)
    ELSE LET x == ExpandPath(path, env)
             p == x.rtn
             info == osStat(f, p, fault)
         IN  IF x.err # <<>> THEN Out(mcpError(x.err), f)
             ELSE IF info.err = ""
             THEN Out(mcpSuccess(<<"exists", TRUE, "path", p>>)
                        @@ [type |-> itemType(info.isDir),
                            is_file |-> ~info.isDir,
                            is_dir |-> info.isDir], f)
             ELSE Out(mcpSuccess(<<"exists", FALSE, "path", p>>), f)

\* Exists.
Exists(f, env, path, fault) ==
    IF path = EmptyStr THEN Out(mcpError(<<"path is required">>), f)
    ELSE LET x == ExpandPath(path, env)
             p == x.rtn
             info == osStat(f, p, fault)
             exists == info.err = ""
             result == mcpSuccess(<<"exists", exists, "path", p>>)
         IN  IF x.err # <<>> THEN Out(mcpError(x.err), f)
             ELSE IF exists
             THEN Out(result @@ [type |-> itemType(info.isDir),
                                 is_file |-> ~info.isDir,
                                 is_dir |-> info.isDir], f)
             ELSE IF ~IsNotExist(info.err)
             THEN Out(mcpError(PathError("stat", p, info.err)), f)
             ELSE Out(mcpSuccess(<<"exists", FALSE, "path", p>>), f)

\* Stat; modTime is the modification time the host reports for the target.
Stat(f, env, path, modTime, fault) ==
    IF path = EmptyStr THEN Out(mcpError(<<"path is required">>), f)
    ELSE LET x == ExpandPath(path, env)
             p == x.rtn
             info == osStat(f, p, fault)
         IN  IF x.err # <<>> THEN Out(mcpError(x.err), f)
             ELSE IF info.err # ""
             THEN (IF IsNotExist(info.err)
                   THEN Out(mcpError(<<"path not found: ">> \o Render(path)), f)
                   ELSE Out(mcpError(PathError("stat", p, info.err)), f))
             ELSE Out(mcpSuccess(<<"path", p,
                                   "name", BaseOf(p),
                                   "type", itemType(info.isDir),
                                   "size", info.size,
                                   "mode", info.perm,
                                   "modified", modTime,
                                   "accessed", modTime,
                                   "created", modTime,
                                   "is_file", ~info.isDir,
                                   "is_dir", info.isDir,
                                   "is_symlink", info.modeSymlink>>), f)

\* Mkdir from the return of its os.Stat on: info is what the stat returned, f
\* the file system its create call acts on.
MkdirCreate(f, env, path, parents, fault, info) ==
    LET p == ExpandPath(path, env).rtn
        mk == IF parents THEN osMkdirAll(f, NodeOf(p), fault, "op")
              ELSE osMkdir(f, p, fault)
    IN  IF info.err = ""
        THEN (IF info.isDir
              THEN Out(mcpSuccess(<<"path", p, "message", <<"directory already exists">>>>), f)
              ELSE Out(mcpError(<<"path exists but is not a directory: ">> \o Render(path)), f))
        ELSE IF mk.err # ""
        THEN Out(OpError(mk.err, PathError("mkdir", p, mk.err), path), mk.fs)
        ELSE Out(mcpSuccess(<<"path", p>>), mk.fs)

\* Mkdir, when nothing acts on the file system between its os.Stat and its
\* create call.
Mkdir(f, env, path, parents, fault) ==
    IF path = EmptyStr THEN Out(mcpError(<<"path is required">>), f)
    ELSE LET x == ExpandPath(path, env)
         IN  IF x.err # <<>> THEN Out(mcpError(x.err), f)
             ELSE MkdirCreate(f, env, path, parents, fault, osStat(f, x.rtn, fault))

\* The error texts that hold the words "not empty".
NotEmptyTexts == {"directory not empty"}

\* strings.Contains(err.Error(), "not empty").
ContainsNotEmpty(msg) == \E i \in 1..Len(msg) : msg[i] \in NotEmptyTexts

\* Rm.
Rm(f, env, path, recursive, fault) ==
    IF path = EmptyStr THEN Out(mcpError(<<"path is required">>), f)
    ELSE LET x == ExpandPath(path, env)
             p == x.rtn
             info == osStat(f, p, fault)
             rm == IF info.isDir /\ recursive THEN osRemoveAll(f, p, fault)
                   ELSE osRemove(f, p, fault)
             native == PathError(IF info.isDir /\ recursive THEN "unlinkat" ELSE "remove",
                                 p, rm.err)
         IN  IF x.err # <<>> THEN Out(mcpError(x.err), f)
             ELSE IF info.err # ""
             THEN (IF IsNotExist(info.err)
                   THEN Out(mcpError(<<"path not found: ">> \o Render(path)), f)
                   ELSE Out(mcpError(PathError("stat", p, info.err)), f))
             ELSE IF info.isDir /\ ~recursive /\ rm.err # "" /\ ContainsNotEmpty(native)
             THEN Out(mcpError(<<"directory not empty: ">> \o Render(path)
                               \o <<". use recursive=true">>), rm.fs)
             ELSE IF rm.err # "" THEN Out(OpError(rm.err, native, path), rm.fs)
             ELSE Out(mcpSuccess(<<"path", p>>), rm.fs)

\* A mutant of Mv: the source is resolved before the arguments are validated,
\* and dest is validated first.
MvResolvesFirst(f, env, source, dest, fault) ==
    LET xs == ExpandPath(source, env)
        xd == ExpandPath(dest, env)
        src == xs.rtn
        dst == xd.rtn
        info == osStat(f, src, fault)
        mv == osRename(f, src, dst, fault)
    IN  IF source # EmptyStr /\ xs.err # <<>> THEN Out(mcpError(xs.err), f)
        ELSE IF dest = EmptyStr THEN Out(mcpError(<<"dest is required">>), f)
        ELSE IF source = EmptyStr THEN Out(mcpError(<<"source is required">>), f)
        ELSE IF xd.err # <<>> THEN Out(mcpError(xd.err), f)
        ELSE IF info.err # ""
        THEN (IF IsNotExist(info.err)
              THEN Out(mcpError(<<"source not found: ">> \o Render(source)), f)
              ELSE Out(mcpError(PathError("stat", src, info.err)), f))
        ELSE IF mv.err # ""
        THEN Out(OpError(mv.err, LinkError("rename", src, dst, mv.err), source), mv.fs)
        ELSE Out(mcpSuccess(<<"source", src, "dest", dst>>), mv.fs)

\* Mv.
Mv(f, env, source, dest, fault) ==
    IF source = EmptyStr THEN Out(mcpError(<<"source is required">>), f)
    ELSE IF dest = EmptyStr THEN Out(mcpError(<<"dest is required">>), f)
    ELSE LET xs == ExpandPath(source, env)
             xd == ExpandPath(dest, env)
             src == xs.rtn
             dst == xd.rtn
             info == osStat(f, src, fault)
             mv == osRename(f, src, dst, fault)
         IN  IF xs.err # <<>> THEN Out(mcpError(xs.err), f)
             ELSE IF xd.err # <<>> THEN Out(mcpError(xd.err), f)
             ELSE IF info.err # ""
             THEN (IF IsNotExist(info.err)
                   THEN Out(mcpError(<<"source not found: ">> \o Render(source)), f)
                   ELSE Out(mcpError(PathError("stat", src, info.err)), f))
             ELSE IF mv.err # ""
             THEN Out(OpError(mv.err, LinkError("rename", src, dst, mv.err), source), mv.fs)
             ELSE Out(mcpSuccess(<<"source", src, "dest", dst>>), mv.fs)

\* A mutant of Cp: the recursive flag is not looked at, and a directory is
\* copied whatever it says.
CpAlwaysRecursive(f, env, source, dest, recursive, fault) ==
    IF source = EmptyStr THEN Out(mcpError(<<"source is required">>), f)
    ELSE IF dest = EmptyStr THEN Out(mcpError(<<"dest is required">>), f)
    ELSE LET xs == ExpandPath(source, env)
             xd == ExpandPath(dest, env)
             src == xs.rtn
             dst == xd.rtn
             info == osStat(f, src, fault)
             cp == copyCopy(f, src, dst, fault)
         IN  IF xs.err # <<>> THEN Out(mcpError(xs.err), f)
             ELSE IF xd.err # <<>> THEN Out(mcpError(xd.err), f)
             ELSE IF info.err # ""
             THEN (IF IsNotExist(info.err)
                   THEN Out(mcpError(<<"source not found: ">> \o Render(source)), f)
                   ELSE Out(mcpError(PathError("stat", src, info.err)), f))
             ELSE IF cp.err # ""
             THEN Out(OpError(cp.err, PathError(cp.op, cp.path, cp.err), source), cp.fs)
             ELSE Out(mcpSuccess(<<"source", src, "dest", dst>>), cp.fs)

\* Cp.
Cp(f, env, source, dest, recursive, fault) ==
    IF source = EmptyStr THEN Out(mcpError(<<"source is required">>), f)
    ELSE IF dest = EmptyStr THEN Out(mcpError(<<"dest is required">>), f)
    ELSE LET xs == ExpandPath(source, env)
             xd == ExpandPath(dest, env)
             src == xs.rtn
             dst == xd.rtn
             info == osStat(f, src, fault)
             cp == copyCopy(f, src, dst, fault)
         IN  IF xs.err # <<>> THEN Out(mcpError(xs.err), f)
             ELSE IF xd.err # <<>> THEN Out(mcpError(xd.err), f)
             ELSE IF info.err # ""
             THEN (IF IsNotExist(info.err)
                   THEN Out(mcpError(<<"source not found: ">> \o Render(source)), f)
                   ELSE Out(mcpError(PathError("stat", src, info.err)), f))
             ELSE IF info.isDir /\ ~recursive
             THEN Out(mcpError(<<"source is a directory. use recursive=true">>), f)
             ELSE IF cp.err # ""
             THEN Out(OpError(cp.err, PathError(cp.op, cp.path, cp.err), source), cp.fs)
             ELSE Out(mcpSuccess(<<"source", src, "dest", dst>>), cp.fs)

(***************************************************************************)
(* cmd/fs: the dispatcher                                                  *)
(*                                                                         *)
(* One invocation of the command is one step: a fresh process reads its    *)
(* flags, calls the operation, writes to standard output and exits. inv    *)
(* holds the flags of the invocation (with the environment and the host's  *)
(* fault it met), res what the operation returned, stdout what was         *)
(* written, exit the exit status. Nothing but the file system outlives the *)
(* process: pc is "exited" after an invocation and "ready" once its        *)
(* process is gone and the next one may start.                             *)
(***************************************************************************)

\* The value of res when no operation was called.
NoCall == [called |-> FALSE]

\* cmd.Help(): the usage text, which is not a result mapping.
HelpText == [help |-> TRUE]

\* The flag values of an invocation that sets none: the defaults of main.
DefaultFlags ==
    [operation |-> "", path |-> EmptyStr, source |-> EmptyStr, dest |-> EmptyStr,
     content |-> NoData, recursive |-> "false", parents |-> "false", createDirs |-> "false",
     HOME |-> EmptyStr, fault |-> NoFault, modTime |-> 0, subCommand |-> ""]

\* The raw paths an invocation is given: "", ".", "/a", "/b", "/a/a", "/a/b", "~/b".
RawPaths ==
    {EmptyStr, <<".">>, <<"", "a">>, <<"", "b">>, <<"", "a", "a">>, <<"", "a", "b">>,
     <<"~", "b">>}

\* The contents an invocation is given: "", "hi" and a byte that is not UTF-8.
Contents == {NoData, Hi, BadBytes}

\* The values of a boolean flag; "yes" is not one strconv.ParseBool accepts.
BoolFlags == {"true", "false", "yes"}

\* The environments of an invocation: HOME is /a, or is not set. An
\* invocation none of whose paths names the home directory runs with HOME set.
HomeSet == [HOME |-> <<"", "a">>, X |-> EmptyStr]
HomeUnset == [HOME |-> EmptyStr, X |-> EmptyStr]
Envs(paths) == IF \E p \in paths : p[1] = "~" THEN {HomeSet, HomeUnset} ELSE {HomeSet}

\* The modification times the host reports.
ModTimes == {1, 2}

\* The operation selectors that name no operation.
UnknownOperations == {"chmod"}

\* A mutant of toBool: a value that does not parse is taken as false.
toBoolLenient(str) == [err |-> <<>>, b |-> str = "true"]

\* toBool: strconv.ParseBool.
toBool(str) ==
    IF str = "true" THEN [err |-> <<>>, b |-> TRUE]
    ELSE IF str = "false" THEN [err |-> <<>>, b |-> FALSE]
    ELSE [err |-> <<"failed to parse bool ", str, ": strconv.ParseBool: parsing ", str,
                    ": invalid syntax">>,
          b |-> FALSE]

\* getBool: ok is whether the key holds a boolean, v its value.
getBool(m, key) ==
    IF key \in DOMAIN m THEN [ok |-> TRUE, v |-> m[key]] ELSE [ok |-> FALSE, v |-> FALSE]

\* What an invocation leaves: the operation's result, the output, the status.
Ran(r, f, out, status) == [res |-> r, fs |-> f, stdout |-> out, exit |-> status]

\* A mutant of mcpFatalError: the process exits 1 without writing the mapping.
mcpFatalErrorSilent(err, r, f, out) == Ran(r, f, out, 1)

\* mcpFatalError: the failure mapping is written and the process exits 1.
mcpFatalError(err, r, f, out) == Ran(r, f, Append(out, [error |-> err, success |-> FALSE]), 1)

\* The end of a sub-command that exits 1 when the result is not a success:
\* mcpOutput(result), then getBool(result, "success").
OutputAndExit(o) ==
    LET g == getBool(o.res, "success")
    IN  IF ~g.ok
        THEN mcpFatalError(<<"value success is not a boolean: false">>, o.res, o.fs, <<o.res>>)
        ELSE Ran(o.res, o.fs, <<o.res>>, IF g.v THEN 0 ELSE 1)

\* The end of the exists sub-command: mcpOutput(result), return nil.
OutputOnly(o) == Ran(o.res, o.fs, <<o.res>>, 0)

\* The RunE of each sub-command, from the flags it reads.
RunRead(f, env, fl) == OutputAndExit(Read(f, env, fl.path, fl.fault))

RunWrite(f, env, fl) ==
    LET createDirs == toBool(fl.createDirs)
    IN  IF createDirs.err # <<>> THEN mcpFatalError(createDirs.err, NoCall, f, <<>>)
        ELSE OutputAndExit(Write(f, env, fl.path, fl.content, createDirs.b, fl.fault))

RunList(f, env, fl) ==
    LET recursive == toBool(fl.recursive)
    IN  IF recursive.err # <<>> THEN mcpFatalError(recursive.err, NoCall, f, <<>>)
        ELSE OutputAndExit(List(f, env, fl.path, recursive.b, fl.fault))

RunExists(f, env, fl) == OutputOnly(Exists(f, env, fl.path, fl.fault))

RunStat(f, env, fl) == OutputAndExit(Stat(f, env, fl.path, fl.modTime, fl.fault))

RunMkdir(f, env, fl) ==
    LET parents == toBool(fl.parents)
    IN  IF parents.err # <<>> THEN mcpFatalError(parents.err, NoCall, f, <<>>)
        ELSE OutputAndExit(Mkdir(f, env, fl.path, parents.b, fl.fault))

RunRm(f, env, fl) ==
    LET recursive == toBool(fl.recursive)
    IN  IF recursive.err # <<>> THEN mcpFatalError(recursive.err, NoCall, f, <<>>)
        ELSE OutputAndExit(Rm(f, env, fl.path, recursive.b, fl.fault))

RunMv(f, env, fl) == OutputAndExit(Mv(f, env, fl.source, fl.dest, fl.fault))

RunCp(f, env, fl) ==
    LET recursive == toBool(fl.recursive)
    IN  IF recursive.err # <<>> THEN mcpFatalError(recursive.err, NoCall, f, <<>>)
        ELSE OutputAndExit(Cp(f, env, fl.source, fl.dest, recursive.b, fl.fault))

\* A mutant of RunRoot: a selector that names no sub-command is treated as no
\* selector.
RunRootHelps(f, fl) == Ran(NoCall, f, <<HelpText>>, 0)

\* The RunE of the root command when the selector names no sub-command: help
\* for an empty selector, otherwise an error, which main reports and exits 1.
RunRoot(f, fl) ==
    IF fl.operation # "" 
    THEN mcpFatalError(<<"unknown operation: ", fl.operation>>, NoCall, f, <<>>)
    ELSE Ran(NoCall, f, <<HelpText>>, 0)

\* The environment of an invocation, from its record.
EnvOf(fl) == [HOME |-> fl.HOME, X |-> EmptyStr]

\* One invocation: the state after it.
Invoke(fl, ran) ==
    /\ pc' = "exited"
    /\ inv' = fl
    /\ fs' = ran.fs
    /\ res' = ran.res
    /\ stdout' = ran.stdout
    /\ exit' = ran.exit
    /\ UNCHANGED <<expand, mkdirInfo>>

\* Whether a move or a copy stays within the modelled tree (see Fits).
Resolves(fl) ==
    /\ fl.source # EmptyStr /\ fl.dest # EmptyStr
    /\ ExpandPath(fl.source, EnvOf(fl)).err = <<>>
    /\ ExpandPath(fl.dest, EnvOf(fl)).err = <<>>

SrcNode(fl) == NodeOf(ExpandPath(fl.source, EnvOf(fl)).rtn)
DstNode(fl) == NodeOf(ExpandPath(fl.dest, EnvOf(fl)).rtn)

MvModelled(f, fl) ==
    (Resolves(fl) /\ RenameErr(f, SrcNode(fl), DstNode(fl)) = "")
        => Fits(f, SrcNode(fl), DstNode(fl))

CpModelled(f, fl) ==
    (Resolves(fl) /\ LookupErr(f, SrcNode(fl)) = "") => Fits(f, SrcNode(fl), DstNode(fl))

\* The read sub-command runs when the selector names it and also when it is
\* named on the command line itself: cobra then runs its RunE and not the
\* root's, whatever the selector says. subCommand records the second case.
newReadCmd(F) ==
    \E path \in RawPaths, operation \in {"read"} \cup UnknownOperations :
     \E env \in Envs({path}), fault \in F :
        LET fl == [DefaultFlags EXCEPT !.operation = operation, !.path = path,
                                       !.HOME = env.HOME, !.fault = fault,
                                       !.subCommand = IF operation = "read" THEN ""
                                                      ELSE "read"]
        IN  \E ran \in {RunRead(fs, env, fl)} : Invoke(fl, ran)

newWriteCmd(F) ==
    \E path \in RawPaths, content \in Contents, createDirs \in BoolFlags :
     \E env \in Envs({path}), fault \in F :
        LET fl == [DefaultFlags EXCEPT !.operation = "write", !.path = path,
                                       !.content = content, !.createDirs = createDirs,
                                       !.HOME = env.HOME, !.fault = fault]
        IN  \E ran \in {RunWrite(fs, env, fl)} : Invoke(fl, ran)

newListCmd(F) ==
    \E path \in RawPaths, recursive \in BoolFlags : \E env \in Envs({path}), fault \in F :
        LET fl == [DefaultFlags EXCEPT !.operation = "list", !.path = path,
                                       !.recursive = recursive,
                                       !.HOME = env.HOME, !.fault = fault]
        IN  \E ran \in {RunList(fs, env, fl)} : Invoke(fl, ran)

newExistsCmd(F) ==
    \E path \in RawPaths : \E env \in Envs({path}), fault \in F :
        LET fl == [DefaultFlags EXCEPT !.operation = "exists", !.path = path,
                                       !.HOME = env.HOME, !.fault = fault]
        IN  \E ran \in {RunExists(fs, env, fl)} : Invoke(fl, ran)

newStatCmd(F) ==
    \E path \in RawPaths, modTime \in ModTimes : \E env \in Envs({path}), fault \in F :
        LET fl == [DefaultFlags EXCEPT !.operation = "stat", !.path = path,
                                       !.modTime = modTime,
                                       !.HOME = env.HOME, !.fault = fault]
        IN  \E ran \in {RunStat(fs, env, fl)} : Invoke(fl, ran)

newMkdirCmd(F) ==
    \E path \in RawPaths, parents \in BoolFlags : \E env \in Envs({path}), fault \in F :
        LET fl == [DefaultFlags EXCEPT !.operation = "mkdir", !.path = path,
                                       !.parents = parents,
                                       !.HOME = env.HOME, !.fault = fault]
        IN  \E ran \in {RunMkdir(fs, env, fl)} : Invoke(fl, ran)

newRmCmd(F) ==
    \E path \in RawPaths, recursive \in BoolFlags : \E env \in Envs({path}), fault \in F :
        LET fl == [DefaultFlags EXCEPT !.operation = "rm", !.path = path,
                                       !.recursive = recursive,
                                       !.HOME = env.HOME, !.fault = fault]
        IN  \E ran \in {RunRm(fs, env, fl)} : Invoke(fl, ran)

newMvCmd(F) ==
    \E source \in RawPaths, dest \in RawPaths : \E env \in Envs({source, dest}), fault \in F :
        LET fl == [DefaultFlags EXCEPT !.operation = "mv", !.source = source,
                                       !.dest = dest,
                                       !.HOME = env.HOME, !.fault = fault]
        IN  /\ MvModelled(fs, fl)
            /\ \E ran \in {RunMv(fs, env, fl)} : Invoke(fl, ran)

newCpCmd(F) ==
    \E source \in RawPaths, dest \in RawPaths, recursive \in BoolFlags :
     \E env \in Envs({source, dest}), fault \in F :
        LET fl == [DefaultFlags EXCEPT !.operation = "cp", !.source = source,
                                       !.dest = dest, !.recursive = recursive,
                                       !.HOME = env.HOME, !.fault = fault]
        IN  /\ CpModelled(fs, fl)
            /\ \E ran \in {RunCp(fs, env, fl)} : Invoke(fl, ran)

rootRunE ==
    \E operation \in UnknownOperations \cup {""} :
        LET fl == [DefaultFlags EXCEPT !.operation = operation]
        IN  \E ran \in {RunRoot(fs, fl)} : Invoke(fl, ran)

\* The resolver's own specification is idle while the command runs.
Idle == [stage |-> "idle"]

\* What an invocation holds of Mkdir's os.Stat when it is not between that
\* call and the create call.
NoInfo == [err |-> "none"]

Init ==
    /\ fs = EmptyFS
    /\ pc = "ready"
    /\ inv = DefaultFlags
    /\ res = NoCall
    /\ stdout = <<>>
    /\ exit = 0
    /\ expand = Idle
    /\ mkdirInfo = NoInfo

\* The process of the last invocation is gone; the file system stays.
processGone ==
    /\ pc = "exited"
    /\ pc' = "ready"
    /\ inv' = DefaultFlags
    /\ res' = NoCall
    /\ stdout' = <<>>
    /\ exit' = 0
    /\ mkdirInfo' = NoInfo
    /\ UNCHANGED <<fs, expand>>

Commands(F) ==
    \/ pc = "ready" /\ newReadCmd(F)
    \/ pc = "ready" /\ newWriteCmd(F)
    \/ pc = "ready" /\ newListCmd(F)
    \/ pc = "ready" /\ newExistsCmd(F)
    \/ pc = "ready" /\ newStatCmd(F)
    \/ pc = "ready" /\ newMkdirCmd(F)
    \/ pc = "ready" /\ newRmCmd(F)
    \/ pc = "ready" /\ newMvCmd(F)
    \/ pc = "ready" /\ newCpCmd(F)
    \/ pc = "ready" /\ rootRunE
    \/ processGone

\* The command on a host that raises no fault.
Next == Commands({NoFault})

Spec == Init /\ [][Next]_vars

\* The command on a host that may raise a fault at any step.
NextFault == Commands(Faults)

SpecFault == Init /\ [][NextFault]_vars

TypeOK == TreeOK(fs)

(***************************************************************************)
(* Stat on a host whose tree holds symbolic links. No operation creates a  *)
(* link, so the links are there when the episode starts.                   *)
(***************************************************************************)

\* What a node of such a tree is: absent, a file, a directory, or a link to
\* /a, to /b or to /b/a.
LinkNodes == {Absent, File(Hi), Dir, Link(<<"a">>), Link(<<"b">>), Link(<<"b", "a">>)}

\* The trees with links: a node is there only in a directory.
LinkedTrees == {f \in [NodePaths -> LinkNodes] : TreeOK(f)}

InitLink ==
    /\ fs \in LinkedTrees
    /\ pc = "ready"
    /\ inv = DefaultFlags
    /\ res = NoCall
    /\ stdout = <<>>
    /\ exit = 0
    /\ expand = Idle
    /\ mkdirInfo = NoInfo

NextLink ==
    \/ pc = "ready" /\ newStatCmd({NoFault})
    \/ processGone

SpecLink == InitLink /\ [][NextLink]_vars

(***************************************************************************)
(* Mkdir while other invocations act on the same file system. Every        *)
(* invocation is a process of its own; the host runs their calls one at a  *)
(* time, in any order. The invocation followed here is a mkdir, in two     *)
(* steps: its os.Stat, and its create call with the return.                *)
(***************************************************************************)

\* The mkdir invocation returns from what its os.Stat gave, or before it: the
\* flag does not parse, the path is empty or does not resolve, or the stat
\* found something.
ReturnsAtStat(f, env, fl) ==
    \/ toBool(fl.parents).err # <<>>
    \/ fl.path = EmptyStr
    \/ ExpandPath(fl.path, env).err # <<>>
    \/ osStat(f, ExpandPath(fl.path, env).rtn, fl.fault).err = ""

\* The mkdir invocation up to the return of its os.Stat.
mkdirStat ==
    /\ pc = "ready"
    /\ \E path \in RawPaths, parents \in BoolFlags : \E env \in Envs({path}) :
        LET fl == [DefaultFlags EXCEPT !.operation = "mkdir", !.path = path,
                                       !.parents = parents, !.HOME = env.HOME]
        IN  IF ReturnsAtStat(fs, env, fl)
            THEN \E ran \in {RunMkdir(fs, env, fl)} : Invoke(fl, ran)
            ELSE /\ pc' = "stat"
                 /\ inv' = fl
                 /\ mkdirInfo' = osStat(fs, ExpandPath(path, env).rtn, fl.fault)
                 /\ UNCHANGED <<fs, res, stdout, exit, expand>>

\* The mkdir invocation from its create call to its exit, on the file system
\* as it is now.
mkdirCreate ==
    /\ pc = "stat"
    /\ \E ran \in {OutputAndExit(MkdirCreate(fs, EnvOf(inv), inv.path, toBool(inv.parents).b,
                                             inv.fault, mkdirInfo))} :
        /\ pc' = "exited"
        /\ fs' = ran.fs
        /\ res' = ran.res
        /\ stdout' = ran.stdout
        /\ exit' = ran.exit
        /\ UNCHANGED <<inv, expand, mkdirInfo>>

\* The host call of another invocation that changes the file system: the
\* create call of a mkdir, ...
otherMkdir ==
    /\ pc \in {"ready", "stat"}
    /\ \E path \in RawPaths, parents \in BOOLEAN :
        LET o == Mkdir(fs, HomeSet, path, parents, NoFault)
        IN  /\ o.res.success
            /\ fs' = o.fs
    /\ UNCHANGED <<pc, inv, res, stdout, exit, expand, mkdirInfo>>

\* ... the remove call of a rm, ...
otherRm ==
    /\ pc \in {"ready", "stat"}
    /\ \E path \in RawPaths, recursive \in BOOLEAN :
        LET o == Rm(fs, HomeSet, path, recursive, NoFault)
        IN  /\ o.res.success
            /\ fs' = o.fs
    /\ UNCHANGED <<pc, inv, res, stdout, exit, expand, mkdirInfo>>

\* ... or the write call of a write.
otherWrite ==
    /\ pc \in {"ready", "stat"}
    /\ \E path \in RawPaths :
        LET o == Write(fs, HomeSet, path, Hi, FALSE, NoFault)
        IN  /\ o.res.success
            /\ fs' = o.fs
    /\ UNCHANGED <<pc, inv, res, stdout, exit, expand, mkdirInfo>>

NextRace ==
    \/ mkdirStat
    \/ mkdirCreate
    \/ otherMkdir
    \/ otherRm
    \/ otherWrite
    \/ processGone

SpecRace == Init /\ [][NextRace]_vars

(***************************************************************************)
(* The resolver on its own: ExpandPath applied to a raw path, and applied  *)
(* again to what it returned, in the same environment.                     *)
(***************************************************************************)

\* The strings of 1..n segments.
RECURSIVE StringsUpTo(_)
StringsUpTo(n) ==
    IF n = 0 THEN {}
    ELSE StringsUpTo(n - 1) \cup [1..n -> Segments]

\* The raw paths the resolver is applied to: every non-empty string of at most
\* MaxSegs segments.
RawStrings == StringsUpTo(MaxSegs) \ {EmptyStr}

\* The environments of the resolver: HOME unset, absolute, with a trailing
\* separator, or relative; X unset, a name, "~", the text "$HOME", or "/a/../b".
ExpandEnvs ==
    [HOME : {EmptyStr, <<"", "a">>, <<"", "a", "">>, <<"a">>},
     X : {EmptyStr, <<"b">>, <<"~">>, <<"$HOME">>, <<"", "a", "..", "b">>}]

NoExpansion == [rtn |-> EmptyStr, err |-> <<"not applied">>]

InitExpand ==
    /\ fs = EmptyFS
    /\ pc = "ready"
    /\ inv = DefaultFlags
    /\ res = NoCall
    /\ stdout = <<>>
    /\ exit = 0
    /\ mkdirInfo = NoInfo
    /\ expand \in [stage : {"raw"}, path : RawStrings, env : ExpandEnvs,
                    once : {NoExpansion}, twice : {NoExpansion}]

\* ExpandPath(path).
expandOnce ==
    /\ expand.stage = "raw"
    /\ expand' = [expand EXCEPT !.stage = "once", !.once = ExpandPath(expand.path, expand.env)]
    /\ UNCHANGED <<fs, pc, inv, res, stdout, exit, mkdirInfo>>

\* ExpandPath(ExpandPath(path)), when the first application returned no error.
expandTwice ==
    /\ expand.stage = "once"
    /\ expand.once.err = <<>>
    /\ expand' = [expand EXCEPT !.stage = "twice",
                                !.twice = ExpandPath(expand.once.rtn, expand.env)]
    /\ UNCHANGED <<fs, pc, inv, res, stdout, exit, mkdirInfo>>

NextExpand == expandOnce \/ expandTwice

SpecExpand == InitExpand /\ [][NextExpand]_vars


(***************************************************************************)
(* Properties                                                              *)
(***************************************************************************)

\* An invocation has ended and its operation was called.
Called == pc = "exited" /\ res # NoCall

\* The environment and the resolved path of the invocation in inv.
Resolved(raw) == ExpandPath(raw, EnvOf(inv))

\* C1: every operation, whatever its arguments and whatever the host does,
\* returns a mapping with a boolean success; a failure holds exactly success
\* and a non-empty error message, a success holds no error.
C1_ResultShape ==
    Called =>
        /\ "success" \in DOMAIN res
        /\ res.success \in BOOLEAN
        /\ ~res.success => (DOMAIN res = {"success", "error"} /\ Len(res.error) > 0)
        /\ res.success => "error" \notin DOMAIN res

\* C1 witness: Exists met a host error at its stat call that is not "not
\* found", the path on which it builds a success mapping first.
C1_Witness ==
    /\ Called
    /\ inv.operation = "exists"
    /\ inv.fault = [step |-> "stat", errno |-> "EACCES"]
    /\ ~res.success

\* The Read that follows the invocation in inv, in the same environment, on a
\* host that raises no fault.
ReadBack == Read(fs, EnvOf(inv), inv.path, NoFault).res

\* A write with createDirs=true of a non-empty content to a non-empty path.
WroteWithDirs ==
    /\ Called
    /\ inv.operation = "write"
    /\ inv.createDirs = "true"
    /\ inv.path # EmptyStr
    /\ inv.content # NoData

\* C2 as stated: after Write(p, c, true) for any path and any non-empty
\* content, Read(p) returns success with content c.
C2_Original == WroteWithDirs => (ReadBack.success /\ ReadBack.content = inv.content)

\* C2 as amended: when Write(p, c, true) returned success and c is valid UTF-8,
\* Read(p) returns success with content c.
C2_RoundTrip ==
    (WroteWithDirs /\ res.success /\ utf8Valid(inv.content))
        => (ReadBack.success /\ ReadBack.content = inv.content)

\* C2 witness: a write through the home directory shorthand succeeded and is
\* read back.
C2_Witness ==
    /\ WroteWithDirs
    /\ res.success
    /\ inv.path = <<"~", "b">>
    /\ inv.content = Hi
    /\ ReadBack.success
    /\ ReadBack.content = Hi

\* The raw path holds a "~" or a reference to an environment variable.
HasForms(p) == \E i \in 1..Len(p) : p[i] \in {"~", "$HOME", "$X"}

\* No doubled or trailing separator: no empty segment but the one that marks
\* the root.
NoDoubledSeparator(r) == r = <<"", "">> \/ \A i \in 2..Len(r) : r[i] # ""

\* Lexically clean as the claim states it: no "." or ".." segment at all.
StrictlyClean(r) ==
    /\ NoDoubledSeparator(r)
    /\ \A i \in 1..Len(r) : r[i] \notin {".", ".."}

\* Lexically clean as filepath.Clean leaves a path: "." only as the whole
\* result, ".." only in front of a relative path.
LexicallyClean(r) ==
    /\ NoDoubledSeparator(r)
    /\ r # EmptyStr
    /\ (\E i \in 1..Len(r) : r[i] = ".") => r = <<".">>
    /\ \A i \in 1..Len(r) : r[i] = ".." => (~IsAbs(r) /\ \A j \in 1..i : r[j] = "..")

\* The resolver was applied to a path with "~" or "$VAR" forms and succeeded.
ExpandedForms ==
    /\ expand.stage \in {"once", "twice"}
    /\ HasForms(expand.path)
    /\ expand.once.err = <<>>

\* C3 as stated: the result of a successful expansion is absolute and holds
\* no "." or ".." segment and no doubled separator, and expanding it again
\* gives it back.
C3_Original ==
    ExpandedForms =>
        /\ IsAbs(expand.once.rtn)
        /\ StrictlyClean(expand.once.rtn)
        /\ expand.stage = "twice" => expand.twice = expand.once

\* The raw path starts at the root, or at the home directory ("~" or "$HOME"
\* as its first segment) with HOME an absolute path.
StartsAbsolute(p, env) ==
    \/ IsAbs(p)
    \/ p[1] \in {"~", "$HOME"} /\ IsAbs(env.HOME)

\* C3 as amended: the result of a successful expansion is a path as
\* filepath.Clean leaves it (no doubled separator, "." only as the whole
\* result, ".." only in front of a relative result); it is absolute, and then
\* free of "." and "..", when the raw path starts at the root or at an absolute
\* home directory; and expanding it again gives it back when it holds no
\* variable reference and does not start with "~".
C3_Expansion ==
    ExpandedForms =>
        /\ LexicallyClean(expand.once.rtn)
        /\ StartsAbsolute(expand.path, expand.env)
              => (IsAbs(expand.once.rtn) /\ StrictlyClean(expand.once.rtn))
        /\ (/\ expand.stage = "twice"
            /\ ~HasForms(<<expand.once.rtn[1]>>)
            /\ \A i \in 1..Len(expand.once.rtn) : expand.once.rtn[i] \notin {"$HOME", "$X"})
              => expand.twice = expand.once

\* C3 witness: "~/../$X" with HOME=/a/ and X=/a/../b was expanded twice, to /b.
C3_Witness ==
    /\ ExpandedForms
    /\ expand.stage = "twice"
    /\ expand.path = <<"~", "..", "$X">>
    /\ expand.env.HOME = <<"", "a", "">>
    /\ expand.once.rtn = <<"", "b">>
    /\ expand.twice = expand.once


\* The first required argument of the invocation that is empty, in the order
\* path, content (write) and source, dest (mv, cp); "none" when none is.
FirstEmpty(fl) ==
    IF fl.operation \in {"mv", "cp"}
    THEN (IF fl.source = EmptyStr THEN "source"
          ELSE IF fl.dest = EmptyStr THEN "dest" ELSE "none")
    ELSE IF fl.path = EmptyStr THEN "path"
    ELSE IF fl.operation = "write" /\ fl.content = NoData THEN "content"
    ELSE "none"

\* The message for a missing argument.
RequiredText(arg) ==
    CASE arg = "path" -> "path is required"
      [] arg = "content" -> "content is required"
      [] arg = "source" -> "source is required"
      [] arg = "dest" -> "dest is required"

\* C4: an operation called with an empty required argument returns exactly
\* success=false and "<arg> is required" for the first empty argument in
\* the order checked, whatever the other arguments, the environment and the
\* host would have done with them, and leaves the file system as it was.
C4_RequiredArguments ==
    [][(pc = "ready" /\ pc' = "exited" /\ res' # NoCall /\ FirstEmpty(inv') # "none")
          => /\ res' = [success |-> FALSE, error |-> <<RequiredText(FirstEmpty(inv'))>>]
             /\ fs' = fs]_vars

\* C4 witness: a move from a source that cannot be resolved (HOME is unset) to
\* an empty dest was refused for its dest.
C4_Witness ==
    /\ Called
    /\ inv.operation = "mv"
    /\ inv.source = <<"~", "b">>
    /\ inv.HOME = EmptyStr
    /\ inv.dest = EmptyStr
    /\ res.error = <<"dest is required">>

\* C5 as stated: the process exits 0 exactly when the mapping the operation
\* returned has success=true.
C5_ExitStatus == Called => (exit = 0 <=> res.success)

\* The error message is a native one of the host for a target that is not
\* found or for a permission that is denied: it ends with the host's text.
NativeNotFoundOrPermission(msg) ==
    msg[Len(msg)] \in {ErrText("ENOENT"), ErrText("EACCES")}

\* C6 as stated: no failure carries the host's native message for a not-found
\* or a permission error; those are always replaced by the operation's
\* descriptive message.
C6_UniformTranslation ==
    (Called /\ ~res.success) => ~NativeNotFoundOrPermission(res.error)

\* What the existence check of the invocation in inv raised: "" for none.
CheckErr == osStat(fs, Resolved(inv.path).rtn, inv.fault).err

\* Exists was called with a non-empty path.
ExistsCalled == Called /\ inv.operation = "exists" /\ inv.path # EmptyStr

\* The result of Exists for a target the host reports as not found, and the
\* shape of its result for one the host finds.
ExistsShape ==
    /\ (Resolved(inv.path).err = <<>> /\ CheckErr = "ENOENT")
          => res = [success |-> TRUE, exists |-> FALSE, path |-> Resolved(inv.path).rtn]
    /\ (Resolved(inv.path).err = <<>> /\ CheckErr = "")
          => /\ DOMAIN res = {"success", "exists", "path", "type", "is_file", "is_dir"}
             /\ res.success /\ res.exists
             /\ res.path = Resolved(inv.path).rtn
             /\ res.is_dir <=> Kind(fs, NodeOf(res.path)) = "dir"
             /\ res.is_file = ~res.is_dir
             /\ res.type = "directory" <=> res.is_dir

\* C7 as stated: Exists fails only when the existence check raised an error
\* other than not-found; a missing target gives exactly success, exists=false
\* and the resolved path, an existing one the fields of its kind.
C7_Original ==
    ExistsCalled =>
        /\ ~res.success
              => (Resolved(inv.path).err = <<>> /\ CheckErr \notin {"", "ENOENT"})
        /\ ExistsShape

\* C7 as amended: Exists fails exactly when the path cannot be resolved (the
\* home directory is unknown) or the existence check raised an error other
\* than not-found, an ancestor that is not a directory included; a target the
\* host reports as not found gives exactly success, exists=false and the
\* resolved path, an existing one the fields of its kind.
C7_Exists ==
    ExistsCalled =>
        /\ ~res.success
              <=> (Resolved(inv.path).err # <<>> \/ CheckErr \notin {"", "ENOENT"})
        /\ ExistsShape

\* C7 witness: Exists on a path below a regular file failed, the host
\* reporting that the ancestor is not a directory.
C7_Witness ==
    /\ ExistsCalled
    /\ inv.fault = NoFault
    /\ CheckErr = "ENOTDIR"
    /\ ~res.success


\* The node an invocation's path resolves to.
PathNode(fl) == NodeOf(ExpandPath(fl.path, EnvOf(fl)).rtn)

\* An invocation of mkdir with parents=true on a path that resolves and does
\* not exist in file system f.
MkdirFresh(f, fl) ==
    /\ fl.operation = "mkdir"
    /\ fl.parents = "true"
    /\ fl.path # EmptyStr
    /\ ExpandPath(fl.path, EnvOf(fl)).err = <<>>
    /\ Kind(f, PathNode(fl)) = "none"

\* The step made the path and its ancestors directories, and a second
\* Mkdir(p, true) on what it left succeeds with "directory already exists" and
\* changes nothing.
MkdirTwice ==
    /\ res'.success
    /\ \A i \in 1..Len(PathNode(inv')) : Kind(fs', Prefix(PathNode(inv'), i)) = "dir"
    /\ LET again == Mkdir(fs', EnvOf(inv'), inv'.path, TRUE, NoFault)
       IN  /\ again.res.success
           /\ "message" \in DOMAIN again.res
           /\ again.res.message = <<"directory already exists">>
           /\ again.fs = fs'

\* C8 as stated: for a path that does not exist, Mkdir(p, true) succeeds and
\* makes p and its missing ancestors directories; a second Mkdir(p, true)
\* succeeds with "directory already exists" and changes nothing.
C8_Original ==
    [][(pc = "ready" /\ pc' = "exited" /\ MkdirFresh(fs, inv')) => MkdirTwice]_vars

\* C8 as amended: for a path that does not exist and has no regular file among
\* its ancestors, on a host that raises no error of its own, Mkdir(p, true)
\* succeeds, makes p and its missing ancestors directories and touches nothing
\* else; a second Mkdir(p, true) succeeds with "directory already exists" and
\* changes nothing.
C8_MkdirIdempotent ==
    [][(/\ pc = "ready" /\ pc' = "exited"
        /\ MkdirFresh(fs, inv')
        /\ MkdirAllErr(fs, PathNode(inv')) = "")
          => /\ MkdirTwice
             /\ "message" \notin DOMAIN res'
             /\ \A m \in NodePaths : ~IsPrefix(m, PathNode(inv')) => fs'[m] = fs[m]]_vars

\* C8 witness: Mkdir(p, true) made a directory two levels down, and a second
\* call on it reports that the directory already exists.
C8_Witness ==
    /\ Called
    /\ inv.operation = "mkdir"
    /\ inv.parents = "true"
    /\ res.success
    /\ "message" \notin DOMAIN res
    /\ Len(PathNode(inv)) = 2
    /\ Mkdir(fs, EnvOf(inv), inv.path, TRUE, NoFault).res
          = [success |-> TRUE, path |-> res.path, message |-> <<"directory already exists">>]

\* An invocation of rm, with a recursive flag that parses, on a path that
\* resolves to a directory of file system f that is not empty.
RmNonEmpty(f, fl) ==
    /\ fl.operation = "rm"
    /\ fl.recursive \in {"true", "false"}
    /\ fl.path # EmptyStr
    /\ ExpandPath(fl.path, EnvOf(fl)).err = <<>>
    /\ LookupErr(f, PathNode(fl)) = ""
    /\ Kind(f, PathNode(fl)) = "dir"
    /\ Children(f, PathNode(fl)) # <<>>

\* Without recursive the step failed with the "not empty" message and removed
\* nothing; with recursive it succeeded and the directory and all below it are
\* gone, the rest as it was.
RmOutcome ==
    IF inv'.recursive = "false"
    THEN /\ ~res'.success
         /\ res'.error[1] = "directory not empty: "
         /\ fs' = fs
    ELSE /\ res'.success
         /\ \A m \in NodePaths :
               fs'[m] = IF IsPrefix(PathNode(inv'), m) THEN Absent ELSE fs[m]

\* C9 as stated: for every path that resolves to a non-empty directory,
\* Rm(p, false) fails with "not empty" and removes nothing, and Rm(p, true)
\* succeeds and removes p with everything below it.
C9_Original ==
    [][(pc = "ready" /\ pc' = "exited" /\ RmNonEmpty(fs, inv')) => RmOutcome]_vars

\* C9 as amended: the same for every non-empty directory but the working
\* directory named as ".", which the host refuses to remove, on a host that
\* raises no error of its own.
C9_RmNonEmpty ==
    [][(/\ pc = "ready" /\ pc' = "exited"
        /\ RmNonEmpty(fs, inv')
        /\ PathNode(inv') # Root)
          => RmOutcome]_vars

\* C9 witness: a recursive removal of a directory that held an entry: the
\* result names the path, which is gone.
C9_Witness ==
    /\ Called
    /\ inv.operation = "rm"
    /\ inv.recursive = "true"
    /\ res.success
    /\ inv.path = <<"", "a">>
    /\ Kind(fs, <<"a">>) = "none"
    /\ Kind(fs, <<"b">>) = "file"

\* Cp(a, b, false) returned success: a was a file.
CopiedFile == Called /\ inv.operation = "cp" /\ inv.recursive = "false" /\ res.success

\* The nodes of a and b of the copy in inv, and of a raw path c.
NodeA == NodeOf(Resolved(inv.source).rtn)
NodeB == NodeOf(Resolved(inv.dest).rtn)
NodeC(c) == NodeOf(Resolved(c).rtn)

\* The move Mv(b, c) that follows the copy in inv.
MoveOn(c) == Mv(fs, EnvOf(inv), inv.dest, c, NoFault)

\* If Mv(b, c) succeeds then a and c are files with the same bytes and b is
\* gone.
MovedOn(c) ==
    MoveOn(c).res.success
        => /\ Kind(MoveOn(c).fs, NodeA) = "file"
           /\ Kind(MoveOn(c).fs, NodeC(c)) = "file"
           /\ Data(MoveOn(c).fs, NodeA) = Data(MoveOn(c).fs, NodeC(c))
           /\ Kind(MoveOn(c).fs, NodeB) = "none"

\* C10 as stated: for an existing file a and any paths b and c, after
\* Cp(a, b, false) and Mv(b, c) both succeeded, a and c hold the same bytes, a
\* exists and b does not.
C10_Original == CopiedFile => \A c \in RawPaths : MovedOn(c)

\* C10 as amended: the same when b resolves to a path other than those of a
\* and c.
C10_CopyThenMove ==
    CopiedFile =>
        \A c \in RawPaths :
            (c # EmptyStr /\ NodeB # NodeA /\ NodeB # NodeC(c)) => MovedOn(c)

\* C10 witness: a file with content was copied to a second path, and moving
\* the copy to a third succeeds and leaves the content there.
C10_Witness ==
    /\ CopiedFile
    /\ \E c \in RawPaths \ {EmptyStr} :
          /\ NodeB # NodeA /\ NodeB # NodeC(c) /\ NodeC(c) # NodeA
          /\ MoveOn(c).res.success
          /\ Data(MoveOn(c).fs, NodeC(c)) = Hi
          /\ Data(MoveOn(c).fs, NodeA) = Hi

\* A step that called Mv with two paths that resolve.
MvStep ==
    /\ pc = "ready" /\ pc' = "exited"
    /\ inv'.operation = "mv"
    /\ res' # NoCall
    /\ Resolves(inv')

\* After the step the source is gone, the dest holds the node the source was
\* with all that was below it, and the result names the two resolved paths.
MvMoved ==
    /\ Kind(fs', SrcNode(inv')) = "none"
    /\ Kind(fs', DstNode(inv')) = Kind(fs, SrcNode(inv'))
    /\ Kind(fs', DstNode(inv')) # "none"
    /\ Data(fs', DstNode(inv')) = Data(fs, SrcNode(inv'))
    /\ \A x \in Names :
          Kind(fs, Append(SrcNode(inv'), x)) # "none"
             => /\ Kind(fs', Append(DstNode(inv'), x)) = Kind(fs, Append(SrcNode(inv'), x))
                /\ Data(fs', Append(DstNode(inv'), x)) = Data(fs, Append(SrcNode(inv'), x))
    /\ res' = [success |-> TRUE,
               source |-> ExpandPath(inv'.source, EnvOf(inv')).rtn,
               dest |-> ExpandPath(inv'.dest, EnvOf(inv')).rtn]

\* A source that does not exist makes the step fail and change nothing.
MvMissingSource ==
    LookupErr(fs, SrcNode(inv')) # "" => (~res'.success /\ fs' = fs)

\* C11 as stated: after any successful Mv the source no longer exists, the
\* dest holds what the source held and the result carries the two resolved
\* paths; Mv fails, the file system unchanged, when the source does not exist.
C11_Original ==
    [][MvStep => ((res'.success => MvMoved) /\ MvMissingSource)]_vars

\* C11 as amended: the same for a successful Mv whose source and dest resolve
\* to different paths.
C11_Mv ==
    [][MvStep => /\ (res'.success /\ SrcNode(inv') # DstNode(inv')) => MvMoved
                 /\ MvMissingSource]_vars

\* C11 witness: a directory that held an entry was moved to a new name, the
\* entry with it.
C11_Witness ==
    /\ Called
    /\ inv.operation = "mv"
    /\ res.success
    /\ inv.source = <<"", "a">>
    /\ inv.dest = <<"", "b">>
    /\ Kind(fs, <<"a">>) = "none"
    /\ Kind(fs, <<"b">>) = "dir"
    /\ Kind(fs, <<"b", "a">>) = "file"

\* A structured result: a boolean success, and an error exactly when it is
\* false.
IsResult(o) ==
    /\ "success" \in DOMAIN o
    /\ o.success \in BOOLEAN
    /\ "error" \in DOMAIN o <=> ~o.success

\* C12 as stated: every invocation, whatever its selector, sub-command and
\* flag values, writes exactly one value to standard output, a structured
\* result.
C12_Original == pc = "exited" => (Len(stdout) = 1 /\ IsResult(stdout[1]))

\* C12 as amended: every invocation writes exactly one value to standard
\* output; it is a structured result whenever a selector or a sub-command is
\* given, and the usage text, with exit status 0, when neither is.
C12_OneOutput ==
    pc = "exited" =>
        /\ Len(stdout) = 1
        /\ IF inv.operation = ""
           THEN stdout[1] = HelpText /\ exit = 0
           ELSE IsResult(stdout[1])

\* C12 witness: a write with a create-dirs value that is no boolean ended
\* before Write was called, with one failure result written.
C12_Witness ==
    /\ pc = "exited"
    /\ inv.operation = "write"
    /\ inv.createDirs = "yes"
    /\ res = NoCall
    /\ Len(stdout) = 1
    /\ ~stdout[1].success

\* List was called with a path that is not empty and resolves, and a
\* recursive flag of the given value.
ListCalled(recursive) ==
    /\ Called
    /\ inv.operation = "list"
    /\ inv.recursive = recursive
    /\ inv.path # EmptyStr
    /\ Resolved(inv.path).err = <<>>

\* The listed path is missing or is no directory.
ListTargetBad == LookupErr(fs, PathNode(inv)) # "" \/ Kind(fs, PathNode(inv)) # "dir"

\* The names of the direct children of node n.
ChildNames(n) == {x \in Names : Kind(fs, Append(n, x)) # "none"}

\* C13: a successful List(p, false) returns one item for each direct child of
\* p and no other, each with exactly the fields path, name and type, and count
\* is the number of items; List fails when p is missing or not a directory.
C13_ListFlat ==
    ListCalled("false") =>
        /\ ListTargetBad => ~res.success
        /\ res.success =>
            /\ DOMAIN res = {"success", "items", "count"}
            /\ res.count = Len(res.items)
            /\ Len(res.items) = Cardinality(ChildNames(PathNode(inv)))
            /\ \A x \in ChildNames(PathNode(inv)) :
                  \E i \in 1..Len(res.items) : res.items[i].name = x
            /\ \A i \in 1..Len(res.items) :
                  /\ DOMAIN res.items[i] = {"path", "name", "type"}
                  /\ res.items[i].name \in ChildNames(PathNode(inv))
                  /\ NodeOf(res.items[i].path) = Append(PathNode(inv), res.items[i].name)
                  /\ res.items[i].type =
                        itemType(Kind(fs, NodeOf(res.items[i].path)) = "dir")

\* C13 witness: a listing of a directory that holds a directory and a file.
C13_Witness ==
    /\ ListCalled("false")
    /\ res.success
    /\ res.count = 2
    /\ res.items[1].type = "directory"
    /\ res.items[2].type = "file"

\* The nodes that exist below node n, at any depth.
Descendants(n) == {m \in NodePaths : IsPrefix(n, m) /\ m # n /\ fs[m].kind # "none"}

\* C14: a successful List(p, true) returns one item for every descendant of p
\* at any depth and none for p itself; joining the resolved root with an
\* item's relative field gives the item's path; count is the number of items.
C14_ListRecursive ==
    (ListCalled("true") /\ res.success) =>
        /\ DOMAIN res = {"success", "items", "count"}
        /\ res.count = Len(res.items)
        /\ Len(res.items) = Cardinality(Descendants(PathNode(inv)))
        /\ \A m \in Descendants(PathNode(inv)) :
              \E i \in 1..Len(res.items) : NodeOf(res.items[i].path) = m
        /\ \A i \in 1..Len(res.items) :
              /\ DOMAIN res.items[i] = {"path", "name", "type", "relative"}
              /\ NodeOf(res.items[i].path) \in Descendants(PathNode(inv))
              /\ res.items[i].path # Resolved(inv.path).rtn
              /\ Clean(Resolved(inv.path).rtn \o res.items[i].relative) = res.items[i].path
              /\ res.items[i].name = BaseOf(res.items[i].path)
              /\ res.items[i].type = itemType(Kind(fs, NodeOf(res.items[i].path)) = "dir")

\* C14 witness: a recursive listing that reached an entry two levels below
\* the listed directory.
C14_Witness ==
    /\ ListCalled("true")
    /\ res.success
    /\ \E i \in 1..Len(res.items) : Len(res.items[i].relative) = 2

\* List, recursive or not, returned success for a path that resolves.
Listed == \E r \in {"true", "false"} : ListCalled(r) /\ res.success

\* C15 as stated: every item List returns has an absolute path, for relative
\* input paths too.
C15_Original == Listed => \A i \in 1..Len(res.items) : IsAbs(res.items[i].path)

\* C15 as amended: every item List returns has a path that is absolute exactly
\* when the resolved listed path is, which it is when the input starts at the
\* root or at an absolute home directory; for a relative input the items' paths
\* are relative.
C15_ItemPaths ==
    Listed =>
        \A i \in 1..Len(res.items) :
            /\ IsAbs(res.items[i].path) <=> IsAbs(Resolved(inv.path).rtn)
            /\ StartsAbsolute(inv.path, EnvOf(inv)) => IsAbs(res.items[i].path)

\* C15 witness: a listing of /a returned an item with an absolute path.
C15_Witness ==
    /\ Listed
    /\ inv.path = <<"", "a">>
    /\ Len(res.items) > 0
    /\ IsAbs(res.items[1].path)

\* A step that called Cp with two paths that resolve.
CpStep ==
    /\ pc = "ready" /\ pc' = "exited"
    /\ inv'.operation = "cp"
    /\ res' # NoCall
    /\ Resolves(inv')

\* C16: Cp(source, dest, false) of a source that is a directory returns
\* exactly the failure "source is a directory. use recursive=true" and changes
\* nothing; Cp of a source that does not exist fails and changes nothing.
C16_CpRefusals ==
    [][CpStep =>
        /\ (/\ inv'.recursive = "false"
            /\ LookupErr(fs, SrcNode(inv')) = ""
            /\ Kind(fs, SrcNode(inv')) = "dir")
              => /\ res' = [success |-> FALSE,
                            error |-> <<"source is a directory. use recursive=true">>]
                 /\ fs' = fs
        /\ LookupErr(fs, SrcNode(inv')) # "" => (~res'.success /\ fs' = fs)]_vars

\* C16 witness: a copy without recursive of a directory that holds an entry
\* was refused, and nothing is at the dest.
C16_Witness ==
    /\ Called
    /\ inv.operation = "cp"
    /\ inv.recursive = "false"
    /\ inv.source = <<"", "a">>
    /\ inv.dest = <<"", "b">>
    /\ Kind(fs, <<"a", "a">>) = "file"
    /\ Kind(fs, <<"b">>) = "none"
    /\ res.error = <<"source is a directory. use recursive=true">>

\* Read was called with a path that is not empty and resolves.
ReadCalled ==
    /\ Called
    /\ inv.operation = "read"
    /\ inv.path # EmptyStr
    /\ Resolved(inv.path).err = <<>>

\* The bytes hold one that no UTF-8 text holds.
HasBadByte(data) == \E i \in 1..Len(data) : data[i] = "xFF"

\* C17: Read fails when the target does not exist, when it is a directory and
\* when its bytes are not valid UTF-8; otherwise, on a host that raises no
\* error, it returns success with content equal to all the bytes of the file.
C17_Read ==
    ReadCalled =>
        IF \/ LookupErr(fs, PathNode(inv)) # ""
           \/ Kind(fs, PathNode(inv)) = "dir"
           \/ HasBadByte(Data(fs, PathNode(inv)))
        THEN ~res.success
        ELSE /\ res.success
             /\ res.content = Data(fs, PathNode(inv))

\* C17 witness: a file holding "hi" was read through the home directory
\* shorthand.
C17_Witness ==
    /\ ReadCalled
    /\ inv.path = <<"~", "b">>
    /\ res.success
    /\ res.content = Hi

\* A step that called Write with a path that is not empty and resolves.
WriteStep ==
    /\ pc = "ready" /\ pc' = "exited"
    /\ inv'.operation = "write"
    /\ res' # NoCall
    /\ inv'.path # EmptyStr
    /\ ExpandPath(inv'.path, EnvOf(inv')).err = <<>>

\* After the step the file at the resolved path holds the content given and
\* nothing more, its ancestors are directories, the result is success with the
\* resolved path, and nothing beside the file and its ancestors has changed.
Written ==
    /\ res' = [success |-> TRUE, path |-> ExpandPath(inv'.path, EnvOf(inv')).rtn]
    /\ Kind(fs', PathNode(inv')) = "file"
    /\ Data(fs', PathNode(inv')) = inv'.content
    /\ \A i \in 1..(Len(PathNode(inv')) - 1) : Kind(fs', Prefix(PathNode(inv'), i)) = "dir"
    /\ \A m \in NodePaths : ~IsPrefix(m, PathNode(inv')) => fs'[m] = fs[m]

\* The path names something to write: not the working directory, not a
\* directory, and no regular file is among its ancestors.
Writable(f, n) ==
    /\ n # Root
    /\ Kind(f, n) # "dir"
    /\ \A i \in 1..(Len(n) - 1) : Kind(f, Prefix(n, i)) # "file"

\* The parent directory of the path is missing.
ParentMissing(f, n) == n # Root /\ LookupErr(f, Parent(n)) = "ENOENT"

\* C18: a successful Write leaves the file at the resolved path holding
\* exactly the content (what was there is replaced) and returns the resolved
\* path; with createDirs=true, on a host that raises no error, the missing
\* ancestors of a path that can be written are made and the write succeeds;
\* with createDirs=false and a missing parent Write fails and creates nothing.
C18_Write ==
    [][WriteStep =>
        /\ res'.success => Written
        /\ (/\ inv'.createDirs = "true"
            /\ inv'.content # NoData
            /\ Writable(fs, PathNode(inv')))
              => res'.success
        /\ (inv'.createDirs = "false" /\ ParentMissing(fs, PathNode(inv')))
              => (~res'.success /\ fs' = fs)]_vars

\* C18 witness: a write with createDirs=true two levels down succeeded; the
\* file holds the content and lies in a directory.
C18_Witness ==
    /\ Called
    /\ inv.operation = "write"
    /\ inv.createDirs = "true"
    /\ inv.path = <<"", "a", "b">>
    /\ res.success
    /\ Kind(fs, <<"a">>) = "dir"
    /\ Data(fs, <<"a", "b">>) = inv.content

\* Stat was called with a path that is not empty and resolves.
StatCalled ==
    /\ Called
    /\ inv.operation = "stat"
    /\ inv.path # EmptyStr
    /\ Resolved(inv.path).err = <<>>

\* C19: a successful Stat returns the byte length of a file as size, is_file
\* = not is_dir, type "directory" exactly when is_dir, the last element of
\* the resolved path as name, and the one modification time the host reports
\* as modified, accessed and created; Stat fails when the target does not
\* exist.
C19_Stat ==
    StatCalled =>
        /\ LookupErr(fs, PathNode(inv)) # "" => ~res.success
        /\ res.success =>
            /\ res.path = Resolved(inv.path).rtn
            /\ res.is_dir <=> Kind(fs, PathNode(inv)) = "dir"
            /\ res.is_file = ~res.is_dir
            /\ res.type = "directory" <=> res.is_dir
            /\ res.type \in {"file", "directory"}
            /\ res.is_file => res.size = Len(Data(fs, PathNode(inv)))
            /\ res.name = res.path[Len(res.path)]
            /\ res.modified = inv.modTime
            /\ res.accessed = inv.modTime
            /\ res.created = inv.modTime

\* C19 witness: Stat of a file of two bytes, two levels down, the host
\* reporting modification time 2.
C19_Witness ==
    /\ StatCalled
    /\ res.success
    /\ inv.path = <<"", "a", "b">>
    /\ res.size = 2
    /\ res.is_file
    /\ res.name = "b"
    /\ res.modified = 2

\* A step of an invocation whose selector names none of the nine operations.
UnknownSelectorStep ==
    /\ pc = "ready" /\ pc' = "exited"
    /\ inv'.operation \in UnknownOperations

\* The step wrote the failure that names the selector and nothing else,
\* exited non-zero, called no operation and left the file system alone.
UnknownReported ==
    /\ res' = NoCall
    /\ stdout' = <<[success |-> FALSE, error |-> <<"unknown operation: ", inv'.operation>>]>>
    /\ exit' # 0
    /\ fs' = fs

\* C20 as stated: when the selector names none of the nine operations the
\* dispatcher writes a failure naming it, exits non-zero, and calls no
\* operation.
C20_Original == [][UnknownSelectorStep => UnknownReported]_vars

\* C20 as amended: the same when no sub-command is named on the command line;
\* a sub-command that is named runs whatever the selector says.
C20_UnknownOperation ==
    [][(UnknownSelectorStep /\ inv'.subCommand = "") => UnknownReported]_vars

\* C20 witness: an unknown selector was reported on a file system that holds
\* a file.
C20_Witness ==
    /\ pc = "exited"
    /\ inv.operation = "chmod"
    /\ inv.subCommand = ""
    /\ res = NoCall
    /\ exit = 1
    /\ Kind(fs, <<"a">>) = "file"

\* The nine operations a selector can name.
KnownOperations == {"read", "write", "list", "exists", "stat", "mkdir", "rm", "mv", "cp"}

\* The value of the boolean flag the operation of an invocation reads; "true"
\* for an operation that reads none.
BoolFlagOf(fl) ==
    CASE fl.operation = "write" -> fl.createDirs
      [] fl.operation \in {"list", "rm", "cp"} -> fl.recursive
      [] fl.operation = "mkdir" -> fl.parents
      [] OTHER -> "true"

\* What the library operation an invocation names returns on file system f,
\* given the invocation's flags.
LibraryResult(f, fl) ==
    CASE fl.operation = "read" -> Read(f, EnvOf(fl), fl.path, fl.fault).res
      [] fl.operation = "write" ->
            Write(f, EnvOf(fl), fl.path, fl.content, fl.createDirs = "true", fl.fault).res
      [] fl.operation = "list" ->
            List(f, EnvOf(fl), fl.path, fl.recursive = "true", fl.fault).res
      [] fl.operation = "exists" -> Exists(f, EnvOf(fl), fl.path, fl.fault).res
      [] fl.operation = "stat" -> Stat(f, EnvOf(fl), fl.path, fl.modTime, fl.fault).res
      [] fl.operation = "mkdir" ->
            Mkdir(f, EnvOf(fl), fl.path, fl.parents = "true", fl.fault).res
      [] fl.operation = "rm" -> Rm(f, EnvOf(fl), fl.path, fl.recursive = "true", fl.fault).res
      [] fl.operation = "mv" -> Mv(f, EnvOf(fl), fl.source, fl.dest, fl.fault).res
      [] fl.operation = "cp" ->
            Cp(f, EnvOf(fl), fl.source, fl.dest, fl.recursive = "true", fl.fault).res

\* A step of an invocation whose selector names one of the nine operations.
KnownSelectorStep ==
    /\ pc = "ready" /\ pc' = "exited"
    /\ inv'.operation \in KnownOperations

\* The step called the operation and wrote exactly what it returned.
Dispatched ==
    /\ res' = LibraryResult(fs, inv')
    /\ stdout' = <<res'>>

FailedStep ==
    /\ pc = "ready" /\ pc' = "exited"
    /\ res' # NoCall
    /\ ~res'.success

\* C22 as stated: whenever an operation returns success=false the file system
\* is as it was before the call.
C22_AllOrNothing == [][FailedStep => fs' = fs]_vars

\* The operations that only inspect the file system.
InspectingOperations == {"read", "list", "exists", "stat"}

\* A step in which one of the inspecting operations was called.
InspectStep ==
    /\ pc = "ready" /\ pc' = "exited"
    /\ inv'.operation \in InspectingOperations
    /\ res' # NoCall

\* C23: Read, List, Exists and Stat never modify the file system: the paths,
\* their types and their contents are after the call what they were before
\* it, whether the call succeeds or fails.
C23_ReadOnly == [][InspectStep => fs' = fs]_vars

\* A file was read with success and is still there with the bytes returned.
C23_Witness ==
    /\ ReadCalled
    /\ res.success
    /\ res.content = Hi
    /\ Kind(fs, NodeOf(Resolved(inv.path).rtn)) = "file"
    /\ Data(fs, NodeOf(Resolved(inv.path).rtn)) = Hi

\* The node a link names, for the node of the invocation's path.
LinkTarget == Data(fs, PathNode(inv))

\* The invocation's path is itself a link, and its target a file or a
\* directory.
StatOfLink ==
    /\ StatCalled
    /\ Kind(fs, PathNode(inv)) = "link"
    /\ LookupErr(fs, PathNode(inv)) = ""
    /\ LookupErr(fs, LinkTarget) = ""
    /\ Kind(fs, LinkTarget) \in {"file", "dir"}

\* C24: in every successful Stat result is_symlink is false; when the path is
\* itself a symbolic link to a file or a directory, Stat succeeds and the
\* type, the size and the flags are those of the target.
C24_NeverSymlink ==
    /\ (StatCalled /\ res.success) => res.is_symlink = FALSE
    /\ StatOfLink =>
        /\ res.success
        /\ res.is_dir <=> Kind(fs, LinkTarget) = "dir"
        /\ res.is_file <=> Kind(fs, LinkTarget) = "file"
        /\ res.type = (IF Kind(fs, LinkTarget) = "dir" THEN "directory" ELSE "file")
        /\ res.is_file => res.size = Len(Data(fs, LinkTarget))

\* C24 witness: Stat of /a, a link to the file /b/a of two bytes, succeeded
\* and reports a file of two bytes that is no link.
C24_Witness ==
    /\ StatOfLink
    /\ inv.path = <<"", "a">>
    /\ LinkTarget = <<"b", "a">>
    /\ res.success
    /\ res.is_file
    /\ res.size = 2
    /\ ~res.is_symlink



\* The mkdir invocation has returned and its path is a directory.
MkdirReturnedOnDir ==
    /\ Called
    /\ inv.operation = "mkdir"
    /\ inv.path # EmptyStr
    /\ Resolved(inv.path).err = <<>>
    /\ Kind(fs, PathNode(inv)) = "dir"

\* C25 as stated: under interleaving with other invocations, whenever
\* Mkdir(p, parents) returns and p is a directory at that moment, the result
\* is success=true, for parents=false as well as parents=true.
C25_MkdirRace == MkdirReturnedOnDir => res.success

====
